---- MODULE Spec2Model ----
(***************************************************************************)
(* Model of the discovery-and-deduplication crawl of enhanced_scraper.py:  *)
(* ProfileDatabase (identity store), LinkedInProfileDiscovery (frontier    *)
(* strategies) and EnhancedLinkedInScraper (scrape_profile with retries,   *)
(* discover_and_scrape with periodic and final checkpoints).               *)
(*                                                                         *)
(* A string is a sequence of one-character strings, so that urlparse,      *)
(* rstrip and split are computed character by character as Python does.    *)
(***************************************************************************)
EXTENDS Integers, Sequences, FiniteSets, TLC

\* ------------------------------------------------------------------------
\* Bounds of the model
\* ------------------------------------------------------------------------

\* largest max_profiles passed to discover_and_scrape (smallest is -1)
MaxN == 3

\* largest export_interval passed to discover_and_scrape
MaxK == 2

\* largest length of each list passed to discover_and_scrape (seed
\* profiles, company URLs, search terms)
MaxInputs == 1

\* largest number of links one visited page shows
MaxLinks == 3

\* ------------------------------------------------------------------------
\* Python string primitives
\* ------------------------------------------------------------------------

Letters == {"h", "s", "i", "n", "a", "b", "q"}

\* s[i:] and s[:i] for 0 <= i
Drop(s, i) == IF i >= Len(s) THEN << >> ELSE SubSeq(s, i + 1, Len(s))

Take(s, i) == IF i >= Len(s) THEN s ELSE SubSeq(s, 1, i)

\* a slice that keeps one element too many
PySlicePrefix_OffByOne(s, n) ==
    IF n >= 0 THEN Take(s, n + 1)
    ELSE IF Len(s) + n + 1 <= 0 THEN << >> ELSE SubSeq(s, 1, Len(s) + n + 1)

\* s[:n] for any integer n (a negative n counts from the end)
PySlicePrefix(s, n) ==
    IF n >= 0 THEN Take(s, n)
    ELSE IF Len(s) + n <= 0 THEN << >> ELSE SubSeq(s, 1, Len(s) + n)

\* s.find(c): 0-based index of the first c in s, -1 when there is none
Find(s, c) ==
    IF \E i \in 1..Len(s) : s[i] = c
    THEN (CHOOSE i \in 1..Len(s) : s[i] = c /\ \A j \in 1..(i - 1) : s[j] # c) - 1
    ELSE -1

\* sub in s
Contains(s, sub) ==
    \E i \in 0..(Len(s) - Len(sub)) : SubSeq(s, i + 1, i + Len(sub)) = sub

\* a strip that leaves the string as it is
RStripSlash_None(s) == s

\* a strip that removes one trailing '/' only
RStripSlash_One(s) == IF s # << >> /\ s[Len(s)] = "/" THEN SubSeq(s, 1, Len(s) - 1) ELSE s

\* s.rstrip('/'): every trailing '/' is removed
RECURSIVE RStripSlash(_)
RStripSlash(s) ==
    IF s # << >> /\ s[Len(s)] = "/" THEN RStripSlash(SubSeq(s, 1, Len(s) - 1)) ELSE s

\* s.split(c)[0]
SplitHead(s, c) == IF Find(s, c) < 0 THEN s ELSE Take(s, Find(s, c))

\* s.split(c, 1)[1] when c is in s
SplitTail(s, c) == Drop(s, Find(s, c) + 1)

\* ------------------------------------------------------------------------
\* urllib.parse.urlparse, as called by ProfileDatabase._normalize_url
\* ------------------------------------------------------------------------

\* the first index >= 2 of one of '/', '?', '#', or len(url): _splitnetloc(url, 2)
NetlocEnd(url) ==
    LET hits == {i \in 3..Len(url) : url[i] \in {"/", "?", "#"}}
    IN  IF hits = {} THEN Len(url)
        ELSE (CHOOSE i \in hits : \A j \in hits : i <= j) - 1

urlparse(url0) ==
    LET i == Find(url0, ":")
        hasScheme == /\ i > 0
                     /\ url0[1] \in Letters
                     /\ \A k \in 1..i : url0[k] \in Letters
        scheme == IF hasScheme THEN Take(url0, i) ELSE << >>
        url1 == IF hasScheme THEN Drop(url0, i + 1) ELSE url0
        hasNetloc == Take(url1, 2) = <<"/", "/">>
        netloc == IF hasNetloc THEN SubSeq(url1, 3, NetlocEnd(url1)) ELSE << >>
        url2 == IF hasNetloc THEN Drop(url1, NetlocEnd(url1)) ELSE url1
        url3 == SplitHead(url2, "#")
        path == SplitHead(url3, "?")
        query == IF Find(url3, "?") < 0 THEN << >> ELSE SplitTail(url3, "?")
    IN  [scheme |-> scheme, netloc |-> netloc, path |-> path, query |-> query]

\* ProfileDatabase._normalize_url
normalize_url(url) ==
    IF url = << >> THEN << >>
    ELSE LET parsed == urlparse(url)
             normalized == parsed.scheme \o <<":", "/", "/">> \o parsed.netloc
                               \o RStripSlash(parsed.path)
         IN  IF Contains(normalized, <<"?">>) THEN SplitHead(normalized, "?")
             ELSE normalized

\* ------------------------------------------------------------------------
\* The remote site and the page-fetch collaborator
\* ------------------------------------------------------------------------

\* "h://s/in/"
ProfilePrefix == <<"h", ":", "/", "/", "s", "/", "i", "n", "/">>

\* href values the site's link elements carry: one target under two raw
\* spellings, plain and with a trailing slash and a query string
\* ("h://s/in/a" and "h://s/in/a/?q"), and a second target
Hrefs == { ProfilePrefix \o <<"a">>,
           ProfilePrefix \o <<"a", "/", "?", "q">>,
           ProfilePrefix \o <<"b">> }

\* the link elements one page shows, in document order
PageLinks == UNION {[1..n -> Hrefs] : n \in 0..MaxLinks}

\* what Person(linkedin_url=..., scrape=True) does: raise, or return a
\* record whose name is empty or not
FetchResults == { [kind |-> "raise", name |-> ""],
                  [kind |-> "person", name |-> ""],
                  [kind |-> "person", name |-> "x"] }

Range(s) == {s[k] : k \in 1..Len(s)}

\* every ordering of a finite set (the iteration order of a Python set,
\* then random.shuffle)
Orderings(S) ==
    {s \in [1..Cardinality(S) -> S] : \A a, b \in 1..Cardinality(S) : s[a] = s[b] => a = b}

\* the store files a run can start from: none, an unreadable one, or a
\* readable one written by an earlier save_database
StoredProfile(id) == [name |-> "x", linkedin_url |-> id]

StoredDicts ==
    {[id \in ids |-> StoredProfile(id)] : ids \in SUBSET {normalize_url(h) : h \in Hrefs}}

\* the empty dict {}
EmptyDict == [id \in {} |-> StoredProfile(id)]

InitialFiles ==
    {[state |-> "missing", content |-> EmptyDict], [state |-> "corrupt", content |-> EmptyDict]}
        \cup {[state |-> "ok", content |-> d] : d \in StoredDicts}

\* ------------------------------------------------------------------------
\* ProfileDatabase
\* ------------------------------------------------------------------------


\* _load_database: the dict read from the file; {} when the file is
\* missing and {} again, after a warning, when reading it raises
load_database(file) == IF file.state = "ok" THEN file.content ELSE EmptyDict

\* whether _load_database went through its except branch
load_raised(file) == file.state = "corrupt"

\* is_scraped without the normalization: the raw URL is looked up
is_scraped_Raw(linkedin_url, urls) == linkedin_url \in urls

\* is_scraped, given the set self.scraped_urls
is_scraped(linkedin_url, urls) == normalize_url(linkedin_url) \in urls

\* add_profile keyed by the raw URL of the record
add_profile_RawKey(profs, urls, person, raises) ==
    IF raises THEN [profiles |-> profs, scraped_urls |-> urls]
    ELSE LET profile_data == [name |-> person.name, linkedin_url |-> person.linkedin_url]
         IN  [profiles |-> [k \in DOMAIN profs \cup {person.linkedin_url} |->
                               IF k = person.linkedin_url THEN profile_data ELSE profs[k]],
              scraped_urls |-> urls \cup {person.linkedin_url}]

\* add_profile that puts the raw URL into the known set
add_profile_RawKnown(profs, urls, person, raises) ==
    IF raises THEN [profiles |-> profs, scraped_urls |-> urls]
    ELSE LET normalized_url == normalize_url(person.linkedin_url)
             profile_data == [name |-> person.name, linkedin_url |-> person.linkedin_url]
         IN  [profiles |-> [k \in DOMAIN profs \cup {normalized_url} |->
                               IF k = normalized_url THEN profile_data ELSE profs[k]],
              scraped_urls |-> urls \cup {person.linkedin_url}]

\* add_profile: the new (profiles, scraped_urls); when building the record
\* raises, the except branch logs and both are left as they were
add_profile(profs, urls, person, raises) ==
    IF raises THEN [profiles |-> profs, scraped_urls |-> urls]
    ELSE LET normalized_url == normalize_url(person.linkedin_url)
             profile_data == [name |-> person.name, linkedin_url |-> person.linkedin_url]
         IN  [profiles |-> [k \in DOMAIN profs \cup {normalized_url} |->
                               IF k = normalized_url THEN profile_data ELSE profs[k]],
              scraped_urls |-> urls \cup {normalized_url}]

\* get_profile_count
get_profile_count(profs) == Cardinality(DOMAIN profs)

\* a persist that writes only into a file that is readable
save_database_NeedsReadableFile(file, profs, result) ==
    IF result = "ok" /\ file.state # "corrupt"
    THEN [state |-> "ok", content |-> profs]
    ELSE IF result = "write_raises" THEN [state |-> "corrupt", content |-> EmptyDict]
    ELSE file

\* save_database: the file afterwards. open(..., 'w') truncates the file,
\* so a write that raises after the open leaves an unreadable file; an open
\* that raises leaves the file as it was. The exception is logged, not raised.
save_database(file, profs, result) ==
    CASE result = "ok" -> [state |-> "ok", content |-> profs]
      [] result = "open_raises" -> file
      [] result = "write_raises" -> [state |-> "corrupt", content |-> EmptyDict]

SaveResults == {"ok", "open_raises", "write_raises"}

\* ------------------------------------------------------------------------
\* LinkedInProfileDiscovery
\* ------------------------------------------------------------------------

\* links harvested from one seed page: profile_links[:5]
PerSeedCap == 5

\* links harvested for one search term: profile_links[:10]
PerTermCap == 10

\* the attempt budget of scrape_profile
max_retries == 3

\* the test both harvest loops apply to an href
IsNewProfileLink(href, seen) ==
    href # << >> /\ Contains(href, <<"/", "i", "n", "/">>) /\ href \notin seen

\* the for loop of discover_from_connections over one page's links: the raw
\* href is appended and remembered
RECURSIVE HarvestAlsoViewed(_, _, _)
HarvestAlsoViewed(links, found, seen) ==
    IF links = << >> THEN [discovered |-> found, discovered_urls |-> seen]
    ELSE IF IsNewProfileLink(Head(links), seen)
         THEN HarvestAlsoViewed(Tail(links), Append(found, Head(links)),
                                seen \cup {Head(links)})
         ELSE HarvestAlsoViewed(Tail(links), found, seen)

\* href.split('?')[0].rstrip('/')
clean_url(href) == RStripSlash(SplitHead(href, "?"))

\* _extract_profile_links: the raw href is tested against discovered_urls,
\* the cleaned one is appended and remembered
RECURSIVE ExtractLoop(_, _, _)
ExtractLoop(elements, links, seen) ==
    IF elements = << >> THEN [links |-> links, discovered_urls |-> seen]
    ELSE IF IsNewProfileLink(Head(elements), seen)
              /\ clean_url(Head(elements)) \notin Range(links)
         THEN ExtractLoop(Tail(elements), Append(links, clean_url(Head(elements))),
                          seen \cup {clean_url(Head(elements))})
         ELSE ExtractLoop(Tail(elements), links, seen)

extract_profile_links(elements, seen) == ExtractLoop(elements, << >>, seen)

\* a cap that hands each strategy the whole of max_profiles
StrategyCap_All(max_profiles) == max_profiles

\* a cap of a quarter
StrategyCap_Quarter(max_profiles) == max_profiles \div 4

\* max_profiles // 3, the cap discover_and_scrape hands to each strategy
StrategyCap(max_profiles) == max_profiles \div 3

\* ------------------------------------------------------------------------
\* State of one program run (main)
\* ------------------------------------------------------------------------

VARIABLES
    pc,                         \* position of the run
    raised,                     \* the exception that ended the run, or "none"
    db_file,                    \* scraped_profiles.json on disk
    profiles,                   \* ProfileDatabase.profiles
    scraped_urls,               \* ProfileDatabase.scraped_urls
    load_failed,                \* _load_database took its except branch
    driver,                     \* EnhancedLinkedInScraper.driver is set
    discovery_discovered_urls,  \* LinkedInProfileDiscovery.discovered_urls
    args,                       \* the arguments of discover_and_scrape
    idx,                        \* inputs visited by the running strategy
    discovered,                 \* the running strategy's list `discovered`
    discovered_urls,            \* discover_and_scrape's set `discovered_urls`
    new_urls,                   \* discover_and_scrape's list, after the shuffle
    i,                          \* targets of the loop that are done
    scraped_count,              \* discover_and_scrape's success counter
    linkedin_url,               \* the argument of the loop's last scrape_profile call
    retries,                    \* scrape_profile's retry counter
    attempts,                   \* fetches issued by the last scrape_profile call
    outcome,                    \* how the last scrape_profile (or direct add_profile) call ended
    ckpt,                       \* what the checkpoint of this target, or the final one, did
    backoffs,                   \* retry sleeps of the last scrape_profile call
    periodic_exports,           \* periodic export_to_excel calls of the scrape loop
    interrupted_at              \* where a KeyboardInterrupt hit the run, or "none"

storeVars == <<db_file, profiles, scraped_urls, load_failed>>

discVars == <<discovery_discovered_urls, idx, discovered, discovered_urls>>

scrapeVars == <<linkedin_url, retries, attempts, outcome, backoffs>>

vars == <<pc, raised, db_file, profiles, scraped_urls, load_failed, driver,
          discovery_discovered_urls, args, idx, discovered, discovered_urls,
          new_urls, i, scraped_count, linkedin_url, retries, attempts, outcome, ckpt,
          backoffs, periodic_exports, interrupted_at>>

NoArgs == [max_profiles |-> 0, export_interval |-> 1, seed_profiles |-> 0,
           company_urls |-> 0, search_terms |-> 0]

NoCkpt == [kind |-> "none", export |-> "none", save |-> "none"]

\* before main runs, with one of `files` on disk
InitOn(files) ==
    /\ pc = "start"
    /\ raised = "none"
    /\ db_file \in files
    /\ profiles = EmptyDict
    /\ scraped_urls = {}
    /\ load_failed = FALSE
    /\ driver = FALSE
    /\ discovery_discovered_urls = {}
    /\ args = NoArgs
    /\ idx = 0
    /\ discovered = << >>
    /\ discovered_urls = {}
    /\ new_urls = << >>
    /\ i = 0
    /\ scraped_count = 0
    /\ linkedin_url = << >>
    /\ retries = 0
    /\ attempts = 0
    /\ outcome = "none"
    /\ ckpt = NoCkpt
    /\ backoffs = 0
    /\ periodic_exports = 0
    /\ interrupted_at = "none"

Init == InitOn(InitialFiles)

\* ------------------------------------------------------------------------
\* EnhancedLinkedInScraper.__init__ and login
\* ------------------------------------------------------------------------

\* scraper = EnhancedLinkedInScraper(): ProfileDatabase() loads the file
Construct ==
    /\ pc = "start"
    /\ profiles' = load_database(db_file)
    /\ scraped_urls' = DOMAIN load_database(db_file)
    /\ load_failed' = load_raised(db_file)
    /\ pc' = "constructed"
    /\ UNCHANGED <<interrupted_at, periodic_exports,
                   raised, db_file, driver, discVars, args, new_urls, i, scraped_count,
                   scrapeVars, ckpt>>

\* login succeeds: the driver is set and the discovery object is created
LoginOk ==
    /\ pc = "constructed"
    /\ driver' = TRUE
    /\ discovery_discovered_urls' = {}
    /\ pc' = "logged_in"
    /\ UNCHANGED <<interrupted_at, periodic_exports,
                   raised, storeVars, args, idx, discovered, discovered_urls, new_urls, i,
                   scraped_count, scrapeVars, ckpt>>

\* a login failure after which the run goes on
LoginRaises_RunGoesOn ==
    /\ pc = "constructed"
    /\ raised' = "login"
    /\ driver' = TRUE
    /\ pc' = "logged_in"
    /\ UNCHANGED <<interrupted_at, periodic_exports, storeVars, discVars, args, new_urls, i,
                   scraped_count, scrapeVars, ckpt>>

\* _setup_driver or actions.login raises: login re-raises, main logs it
LoginRaises ==
    /\ pc = "constructed"
    /\ raised' = "login"
    /\ pc' = "terminated"
    /\ UNCHANGED <<interrupted_at, periodic_exports,
                   storeVars, driver, discVars, args, new_urls, i, scraped_count,
                   scrapeVars, ckpt>>

\* ------------------------------------------------------------------------
\* discover_and_scrape: discovery
\* ------------------------------------------------------------------------

\* the calls main and the launcher can make: max_profiles is any integer the
\* operator types (from -1), the three lists are given by their lengths.
\* export_interval is not read before the scrape loop and is drawn there.
CallArgs ==
    [max_profiles : (-1)..MaxN, export_interval : {1}, seed_profiles : 0..MaxInputs,
     company_urls : 0..MaxInputs, search_terms : 0..MaxInputs]

ExportIntervals == 1..MaxK

AfterCompany(a) == IF a.search_terms > 0 THEN "search" ELSE "filter"

AfterConnections(a) == IF a.company_urls > 0 THEN "company" ELSE AfterCompany(a)

FirstPhase(a) == IF a.seed_profiles > 0 THEN "connections" ELSE AfterConnections(a)

\* discover_and_scrape is entered with a driver and one of `calls`
DiscoverAndScrapeWith(calls) ==
    /\ pc = "logged_in"
    /\ driver
    /\ \E a \in calls :
          /\ args' = a
          /\ pc' = FirstPhase(a)
    /\ discovered_urls' = {}
    /\ scraped_count' = 0
    /\ periodic_exports' = 0
    /\ idx' = 0
    /\ discovered' = << >>
    /\ UNCHANGED <<interrupted_at,
                   raised, storeVars, driver, discovery_discovered_urls, new_urls, i,
                   scrapeVars, ckpt>>

DiscoverAndScrape == DiscoverAndScrapeWith(CallArgs)

\* discover_and_scrape called before login: ValueError, nothing else happens
DiscoverAndScrapeNoDriver ==
    /\ pc = "constructed"
    /\ ~driver
    /\ raised' = "no_driver"
    /\ pc' = "terminated"
    /\ UNCHANGED <<interrupted_at, periodic_exports,
                   storeVars, driver, discVars, args, new_urls, i, scraped_count,
                   scrapeVars, ckpt>>

\* what one visited page does: show links, or raise after `links` were read
Pages == [raises : BOOLEAN, links : PageLinks]

\* a loop that gives up on its inputs when a page raises
GoesOn_StopsOnRaise(more, raises, full) == more /\ ~raises /\ ~full

\* whether a strategy's for loop takes another input: one is left, and the
\* break on a full list was not reached, because the list is not full or
\* because the page raised and except Exception: continue skipped the test
GoesOn(more, raises, full) == more /\ (raises \/ ~full)

\* one iteration of the for loop of discover_from_connections, the seed's
\* page being one of `pages`
ConnectionsVisitOn(pages) ==
    /\ pc = "connections"
    /\ \E page \in pages :
          LET h == HarvestAlsoViewed(Take(page.links, PerSeedCap), discovered,
                                     discovery_discovered_urls)
              more == idx + 1 < args.seed_profiles
              full == Len(h.discovered) >= StrategyCap(args.max_profiles)
          IN  /\ discovered' = h.discovered
              /\ discovery_discovered_urls' = h.discovered_urls
              /\ idx' = idx + 1
              /\ pc' = IF GoesOn(more, page.raises, full) THEN "connections"
                       ELSE "connections_return"
    /\ UNCHANGED <<interrupted_at, periodic_exports,
                   raised, storeVars, driver, args, discovered_urls, new_urls, i,
                   scraped_count, scrapeVars, ckpt>>

ConnectionsVisit == ConnectionsVisitOn(Pages)

\* one iteration of the for loop of discover_from_company_employees
CompanyVisit ==
    /\ pc = "company"
    /\ \E page \in Pages :
          LET r == extract_profile_links(page.links, discovery_discovered_urls)
              cap == StrategyCap(args.max_profiles)
              found == IF page.raises THEN discovered
                       ELSE discovered \o PySlicePrefix(r.links, cap)
              more == idx + 1 < args.company_urls
          IN  /\ page.raises => page.links = << >>
              /\ discovered' = found
              /\ discovery_discovered_urls' =
                     IF page.raises THEN discovery_discovered_urls ELSE r.discovered_urls
              /\ idx' = idx + 1
              /\ pc' = IF GoesOn(more, page.raises, Len(found) >= cap) THEN "company"
                       ELSE "company_return"
    /\ UNCHANGED <<interrupted_at, periodic_exports,
                   raised, storeVars, driver, args, discovered_urls, new_urls, i,
                   scraped_count, scrapeVars, ckpt>>

\* one iteration of the for loop of discover_from_search
SearchVisit ==
    /\ pc = "search"
    /\ \E page \in Pages :
          LET r == extract_profile_links(page.links, discovery_discovered_urls)
              cap == StrategyCap(args.max_profiles)
              found == IF page.raises THEN discovered
                       ELSE discovered \o Take(r.links, PerTermCap)
              more == idx + 1 < args.search_terms
          IN  /\ page.raises => page.links = << >>
              /\ discovered' = found
              /\ discovery_discovered_urls' =
                     IF page.raises THEN discovery_discovered_urls ELSE r.discovered_urls
              /\ idx' = idx + 1
              /\ pc' = IF GoesOn(more, page.raises, Len(found) >= cap) THEN "search"
                       ELSE "search_return"
    /\ UNCHANGED <<interrupted_at, periodic_exports,
                   raised, storeVars, driver, args, discovered_urls, new_urls, i,
                   scraped_count, scrapeVars, ckpt>>

\* return discovered[:max_profiles] of a strategy, and
\* discovered_urls.update(urls) in discover_and_scrape
StrategyResult(found, cap) == PySlicePrefix(found, cap)

StrategyReturn(from, to) ==
    /\ pc = from
    /\ discovered_urls' =
           discovered_urls \cup Range(StrategyResult(discovered, StrategyCap(args.max_profiles)))
    /\ discovered' = << >>
    /\ idx' = 0
    /\ pc' = to
    /\ UNCHANGED <<interrupted_at, periodic_exports,
                   raised, storeVars, driver, discovery_discovered_urls, args, new_urls, i,
                   scraped_count, scrapeVars, ckpt>>

ConnectionsReturn == StrategyReturn("connections_return", AfterConnections(args))

CompanyReturn == StrategyReturn("company_return", AfterCompany(args))

SearchReturn == StrategyReturn("search_return", "filter")

\* the list without the filter
NewUrls_Unfiltered(found, urls) == found

\* [url for url in discovered_urls if not self.profile_db.is_scraped(url)]
NewUrls(found, urls) == {url \in found : ~is_scraped(url, urls)}

\* the filter and random.shuffle(new_urls)
BuildFrontier ==
    /\ pc = "filter"
    /\ new_urls' \in Orderings(NewUrls(discovered_urls, scraped_urls))
    /\ \E interval \in ExportIntervals : args' = [args EXCEPT !.export_interval = interval]
    /\ i' = 0
    /\ pc' = "loop"
    /\ UNCHANGED <<interrupted_at, periodic_exports,
                   raised, storeVars, driver, discVars, scraped_count, scrapeVars, ckpt>>

\* new_urls[:max_profiles], the list the scrape loop goes through
Frontier == PySlicePrefix(new_urls, args.max_profiles)

\* ------------------------------------------------------------------------
\* discover_and_scrape: the scrape loop, scrape_profile and the checkpoints
\* ------------------------------------------------------------------------

\* a loop that comes back to the target it has just handled
NextTarget_SameAgain ==
    /\ i' = i
    /\ pc' = "loop"

\* time.sleep(random.uniform(3, 8)) and the next iteration of the for loop
NextTarget ==
    /\ i' = i + 1
    /\ pc' = "loop"

\* the loop calls scrape_profile(url): a known URL returns None at once
ScrapeProfileEnter ==
    /\ pc = "loop"
    /\ i < Len(Frontier)
    /\ linkedin_url' = Frontier[i + 1]
    /\ retries' = 0
    /\ attempts' = 0
    /\ backoffs' = 0
    /\ IF is_scraped(Frontier[i + 1], scraped_urls)
       THEN /\ outcome' = "skipped"
            /\ NextTarget
       ELSE /\ outcome' = "none"
            /\ pc' = "attempt"
            /\ i' = i
    /\ ckpt' = NoCkpt
    /\ UNCHANGED <<interrupted_at, periodic_exports,
                   raised, storeVars, driver, discVars, args, new_urls, scraped_count>>

\* the loop condition with the bound included
WhileCondition_OneMore(n) == n <= max_retries

\* while retries < max_retries
WhileCondition(n) == n < max_retries

\* the loop condition holds: sleep, then Person(...) is called
IssueFetch ==
    /\ pc = "attempt"
    /\ WhileCondition(retries)
    /\ attempts' = attempts + 1
    /\ pc' = "fetching"
    /\ UNCHANGED <<interrupted_at, periodic_exports,
                   raised, storeVars, driver, discVars, args, new_urls, i, scraped_count,
                   linkedin_url, retries, outcome, ckpt, backoffs>>

\* add_profile called whatever the fetch did
StoreAfterFetch_Always(profs, urls, url, res, add_raises) ==
    add_profile(profs, urls, [name |-> res.name, linkedin_url |-> url], add_raises)

\* the store after a fetch ended: add_profile is called for a named record only
StoreAfterFetch(profs, urls, url, res, add_raises) ==
    IF res.kind = "person" /\ res.name # ""
    THEN add_profile(profs, urls, [name |-> res.name, linkedin_url |-> url], add_raises)
    ELSE [profiles |-> profs, scraped_urls |-> urls]

\* whether scrape_profile goes round its while loop again after a fetch:
\* the except branch counted the failure and the loop condition still
\* holds, so time.sleep(random.uniform(5, 10)) runs before the next attempt
RetriesAfterFetch(res, n) == res.kind = "raise" /\ WhileCondition(n + 1)

\* how scrape_profile ends when it does not go round again
OutcomeOfFetch(res) ==
    IF res.kind = "raise" THEN "failed"
    ELSE IF res.name # "" THEN "succeeded" ELSE "no_data"

\* the test made on the counter before the success was counted
CheckpointDue_BeforeIncrement(count, interval) == (count - 1) % interval = 0

\* if scraped_count % export_interval == 0
CheckpointDue(count, interval) == count % interval = 0

\* Person(...) returns or raises, and the loop body goes on up to the call
\* of the periodic export
FetchEnds ==
    /\ pc = "fetching"
    /\ \E res \in FetchResults, add_raises \in BOOLEAN :
          LET store == StoreAfterFetch(profiles, scraped_urls, linkedin_url, res, add_raises)
          IN  /\ add_raises => res.kind = "person" /\ res.name # ""
              /\ profiles' = store.profiles
              /\ scraped_urls' = store.scraped_urls
              /\ retries' = IF res.kind = "raise" THEN retries + 1 ELSE retries
              /\ IF RetriesAfterFetch(res, retries)
                 THEN /\ pc' = "attempt"
                      /\ backoffs' = backoffs + 1
                      /\ UNCHANGED <<i, outcome, scraped_count, ckpt, periodic_exports>>
                 ELSE /\ outcome' = OutcomeOfFetch(res)
                      /\ backoffs' = backoffs
                      /\ IF OutcomeOfFetch(res) = "succeeded"
                         THEN /\ scraped_count' = scraped_count + 1
                              /\ IF CheckpointDue(scraped_count + 1, args.export_interval)
                                 THEN /\ pc' = "export"
                                      /\ i' = i
                                      /\ ckpt' = [kind |-> "periodic", export |-> "none",
                                                  save |-> "none"]
                                      /\ periodic_exports' = periodic_exports + 1
                                 ELSE /\ NextTarget
                                      /\ UNCHANGED <<ckpt, periodic_exports>>
                         ELSE /\ NextTarget
                              /\ UNCHANGED <<scraped_count, ckpt, periodic_exports>>
    /\ UNCHANGED <<interrupted_at,
                   raised, db_file, load_failed, driver, discVars, args, new_urls,
                   linkedin_url, attempts>>

\* the periodic self.export_to_excel(): when it raises, the loop's
\* except Exception logs it and continues with the next url
PeriodicExport ==
    /\ pc = "export"
    /\ \E export_raises \in BOOLEAN :
          IF export_raises
          THEN /\ ckpt' = [ckpt EXCEPT !.export = "failed"]
               /\ NextTarget
          ELSE /\ ckpt' = [ckpt EXCEPT !.export = "ok"]
               /\ pc' = "save"
               /\ i' = i
    /\ UNCHANGED <<interrupted_at, periodic_exports,
                   raised, storeVars, driver, discVars, args, new_urls, scraped_count,
                   scrapeVars>>

\* the periodic self.profile_db.save_database(), then the sleep
PeriodicSave ==
    /\ pc = "save"
    /\ \E result \in SaveResults :
          /\ db_file' = save_database(db_file, profiles, result)
          /\ ckpt' = [ckpt EXCEPT !.save = result]
    /\ NextTarget
    /\ UNCHANGED <<interrupted_at, periodic_exports,
                   raised, profiles, scraped_urls, load_failed, driver, discVars, args,
                   new_urls, scraped_count, scrapeVars>>

\* the for loop is over; what scrape_profile left behind is out of scope
LoopEnds ==
    /\ pc = "loop"
    /\ i >= Len(Frontier)
    /\ ckpt' = [kind |-> "final", export |-> "none", save |-> "none"]
    /\ linkedin_url' = << >>
    /\ retries' = 0
    /\ attempts' = 0
    /\ outcome' = "none"
    /\ backoffs' = 0
    /\ pc' = "final_export"
    /\ UNCHANGED <<interrupted_at, periodic_exports,
                   raised, storeVars, driver, discVars, args, new_urls, i, scraped_count>>

\* the final self.export_to_excel(), outside any try: when it raises,
\* discover_and_scrape is left and main logs the exception
FinalExport ==
    /\ pc = "final_export"
    /\ \E export_raises \in BOOLEAN :
          IF export_raises
          THEN /\ ckpt' = [ckpt EXCEPT !.export = "failed"]
               /\ raised' = "export_to_excel"
               /\ pc' = "terminated"
          ELSE /\ ckpt' = [ckpt EXCEPT !.export = "ok"]
               /\ raised' = raised
               /\ pc' = "final_save"
    /\ UNCHANGED <<interrupted_at, periodic_exports,
                   storeVars, driver, discVars, args, new_urls, i, scraped_count, scrapeVars>>

\* the final self.profile_db.save_database(); discover_and_scrape returns
FinalSave ==
    /\ pc = "final_save"
    /\ \E result \in SaveResults :
          /\ db_file' = save_database(db_file, profiles, result)
          /\ ckpt' = [ckpt EXCEPT !.save = result]
    /\ pc' = "terminated"
    /\ UNCHANGED <<interrupted_at, periodic_exports,
                   raised, profiles, scraped_urls, load_failed, driver, discVars, args,
                   new_urls, i, scraped_count, scrapeVars>>

\* positions of discover_and_scrape before its scrape loop: no try block
\* is around them, and the except Exception clauses of the strategies do
\* not catch KeyboardInterrupt
DiscoveryPositions == {"connections", "company", "search", "filter"}

\* positions inside the try block of the scrape loop; "loop" with i > 0 is
\* the sleep after a target
LoopPositions == {"loop", "attempt", "fetching", "export", "save"}

\* Ctrl-C during discovery: KeyboardInterrupt leaves discover_and_scrape,
\* main catches it and cleans up
InterruptDiscovery ==
    /\ pc \in DiscoveryPositions
    /\ interrupted_at' = pc
    /\ raised' = "KeyboardInterrupt"
    /\ pc' = "terminated"
    /\ UNCHANGED <<periodic_exports, storeVars, driver, discVars, args, new_urls, i,
                   scraped_count, scrapeVars, ckpt>>

\* the file after a save_database that KeyboardInterrupt cut short: as it
\* was when open() had not run yet, truncated when it had
InterruptedSave(file) == {file, [state |-> "corrupt", content |-> EmptyDict]}

\* Ctrl-C inside the try block of the scrape loop, whatever runs there (a
\* sleep, Person(...), the periodic export or save): except
\* KeyboardInterrupt breaks out of the loop
InterruptLoop ==
    /\ pc \in LoopPositions
    /\ pc = "loop" => i > 0
    /\ interrupted_at' = pc
    /\ db_file' \in IF pc = "save" THEN InterruptedSave(db_file) ELSE {db_file}
    /\ ckpt' = [kind |-> "final", export |-> "none", save |-> "none"]
    /\ linkedin_url' = << >>
    /\ retries' = 0
    /\ attempts' = 0
    /\ outcome' = "none"
    /\ backoffs' = 0
    /\ pc' = "final_export"
    /\ UNCHANGED <<periodic_exports, raised, profiles, scraped_urls, load_failed, driver,
                   discVars, args, new_urls, i, scraped_count>>

Next ==
    \/ Construct
    \/ LoginOk
    \/ LoginRaises
    \/ DiscoverAndScrape
    \/ DiscoverAndScrapeNoDriver
    \/ ConnectionsVisit
    \/ ConnectionsReturn
    \/ CompanyVisit
    \/ CompanyReturn
    \/ SearchVisit
    \/ SearchReturn
    \/ BuildFrontier
    \/ ScrapeProfileEnter
    \/ IssueFetch
    \/ FetchEnds
    \/ PeriodicExport
    \/ PeriodicSave
    \/ LoopEnds
    \/ FinalExport
    \/ FinalSave
    \/ InterruptDiscovery
    \/ InterruptLoop

Spec == Init /\ [][Next]_vars

\* ------------------------------------------------------------------------
\* One call of discover_and_scrape on a site of four profiles
\* ------------------------------------------------------------------------

\* largest max_profiles of the call (smallest is -1)
MaxSeedsN == 10

ProfileA == ProfilePrefix \o <<"a">>

ProfileB == ProfilePrefix \o <<"b">>

ProfileC == ProfilePrefix \o <<"c">>

ProfileD == ProfilePrefix \o <<"d">>

\* the "People also viewed" links of the seed pages, in the order of the
\* seed list [ProfileA, ProfileB]
AlsoViewed == << <<ProfileB, ProfileC>>, <<ProfileD>> >>

\* the page driver.get shows for the seed the strategy is at
SeedPage == [raises |-> FALSE, links |-> AlsoViewed[idx + 1]]

\* store files written by an earlier run on this site
SeedsFiles ==
    {[state |-> "ok", content |-> [id \in ids |-> StoredProfile(id)]] :
        ids \in SUBSET {ProfileA, ProfileB, ProfileC, ProfileD}}

\* discover_and_scrape(seed_profiles=[ProfileA, ProfileB], max_profiles=N)
SeedsCalls ==
    [max_profiles : (-1)..MaxSeedsN, export_interval : {1}, seed_profiles : {Len(AlsoViewed)},
     company_urls : {0}, search_terms : {0}]

SeedsInit == InitOn(SeedsFiles)

SeedsCall == DiscoverAndScrapeWith(SeedsCalls)

SeedsVisit == ConnectionsVisitOn({SeedPage})

\* the run up to the built frontier
SeedsNext ==
    \/ Construct
    \/ LoginOk
    \/ SeedsCall
    \/ SeedsVisit
    \/ ConnectionsReturn
    \/ BuildFrontier

SeedsSpec == SeedsInit /\ [][SeedsNext]_vars

\* ------------------------------------------------------------------------
\* Several runs of main, one after the other, on the same store file
\* ------------------------------------------------------------------------

\* main is started again: a new process, a new EnhancedLinkedInScraper,
\* and the file the last run left
Restart ==
    /\ pc = "terminated"
    /\ pc' = "start"
    /\ raised' = "none"
    /\ profiles' = EmptyDict
    /\ scraped_urls' = {}
    /\ load_failed' = FALSE
    /\ driver' = FALSE
    /\ discovery_discovered_urls' = {}
    /\ args' = NoArgs
    /\ idx' = 0
    /\ discovered' = << >>
    /\ discovered_urls' = {}
    /\ new_urls' = << >>
    /\ i' = 0
    /\ scraped_count' = 0
    /\ linkedin_url' = << >>
    /\ retries' = 0
    /\ attempts' = 0
    /\ outcome' = "none"
    /\ ckpt' = NoCkpt
    /\ backoffs' = 0
    /\ periodic_exports' = 0
    /\ interrupted_at' = "none"
    /\ UNCHANGED db_file

\* the calls with the largest max_profiles and no company pages
RunsCalls == {a \in CallArgs : a.max_profiles = MaxN /\ a.company_urls = 0}

RunsCall == DiscoverAndScrapeWith(RunsCalls)

RunsNext ==
    \/ Construct
    \/ LoginOk
    \/ LoginRaises
    \/ RunsCall
    \/ ConnectionsVisit
    \/ ConnectionsReturn
    \/ SearchVisit
    \/ SearchReturn
    \/ BuildFrontier
    \/ ScrapeProfileEnter
    \/ IssueFetch
    \/ FetchEnds
    \/ PeriodicExport
    \/ PeriodicSave
    \/ LoopEnds
    \/ FinalExport
    \/ FinalSave
    \/ InterruptDiscovery
    \/ InterruptLoop
    \/ Restart

\* the first run finds no store file
RunsSpec == InitOn({[state |-> "missing", content |-> EmptyDict]}) /\ [][RunsNext]_vars

\* ------------------------------------------------------------------------
\* Discovery over several pages per strategy
\* ------------------------------------------------------------------------

\* inputs handed to a strategy that is used
MaxPages == 2

\* largest max_profiles of the call (smallest is -1)
MaxPagesN == 6

\* discover_and_scrape with each list empty or of MaxPages inputs
PagesCalls ==
    [max_profiles : (-1)..MaxPagesN, export_interval : {1}, seed_profiles : {0, MaxPages},
     company_urls : {0, MaxPages}, search_terms : {0, MaxPages}]

PagesCall == DiscoverAndScrapeWith(PagesCalls)

\* a run on a new store, up to the built frontier
PagesNext ==
    \/ Construct
    \/ LoginOk
    \/ PagesCall
    \/ ConnectionsVisit
    \/ ConnectionsReturn
    \/ CompanyVisit
    \/ CompanyReturn
    \/ SearchVisit
    \/ SearchReturn
    \/ BuildFrontier

PagesSpec == InitOn({[state |-> "missing", content |-> EmptyDict]}) /\ [][PagesNext]_vars

\* ------------------------------------------------------------------------
\* ProfileDatabase called directly, as scraper.profile_db
\* ------------------------------------------------------------------------

\* profile_db.add_profile(person), person.linkedin_url being one of `refs`
AddProfileOf(refs) ==
    /\ pc = "constructed"
    /\ \E ref \in refs, add_raises \in BOOLEAN :
          LET store == add_profile(profiles, scraped_urls,
                                   [name |-> "x", linkedin_url |-> ref], add_raises)
          IN  /\ linkedin_url' = ref
              /\ profiles' = store.profiles
              /\ scraped_urls' = store.scraped_urls
              /\ outcome' = IF add_raises THEN "add_raised" ELSE "recorded"
    /\ UNCHANGED <<interrupted_at, periodic_exports, pc, raised, db_file, load_failed, driver,
                   discVars, args, new_urls, i, scraped_count, retries, attempts, ckpt,
                   backoffs>>

\* profile_db.save_database()
SaveDatabase ==
    /\ pc = "constructed"
    /\ \E result \in SaveResults : db_file' = save_database(db_file, profiles, result)
    /\ UNCHANGED <<interrupted_at, periodic_exports, pc, raised, profiles, scraped_urls,
                   load_failed, driver, discVars, args, new_urls, i, scraped_count,
                   scrapeVars, ckpt>>

\* any sequence of add_profile and save_database calls on the site's URLs
AddProfile == AddProfileOf(Hrefs)

DbNext ==
    \/ Construct
    \/ AddProfile
    \/ SaveDatabase

DbSpec == Init /\ [][DbNext]_vars

\* ------------------------------------------------------------------------
\* One reference recorded in a new ProfileDatabase
\* ------------------------------------------------------------------------

\* longest reference
MaxRefLen == 4

\* the characters urlparse and _normalize_url tell apart, and a letter
RefChars == {"h", ":", "/", "?", "#"}

\* every string of at most MaxRefLen characters, the empty one included
Refs == UNION {[1..n -> RefChars] : n \in 0..MaxRefLen}

\* the first add_profile of a database that loaded nothing
RecordRef ==
    /\ outcome = "none"
    /\ AddProfileOf(Refs)

RefNext ==
    \/ Construct
    \/ RecordRef

RefSpec == InitOn({[state |-> "missing", content |-> EmptyDict]}) /\ [][RefNext]_vars

\* ------------------------------------------------------------------------
\* ProfileDatabase called directly, the history of its persists kept
\* ------------------------------------------------------------------------

\* most save_database calls
MaxSaves == 2

\* ghost: for every save_database call so far, its result and the
\* identifiers the database knew when it was called. The sequence is kept
\* in the cell `discovered`, which no method of ProfileDatabase reads or
\* writes.
save_log == discovered

\* profile_db.save_database(), entered in the history
SaveDatabaseLogged ==
    /\ pc = "constructed"
    /\ Len(save_log) < MaxSaves
    /\ \E result \in SaveResults :
          /\ db_file' = save_database(db_file, profiles, result)
          /\ save_log' = Append(save_log, [result |-> result, known |-> scraped_urls])
    /\ UNCHANGED <<interrupted_at, periodic_exports, pc, raised, profiles, scraped_urls,
                   load_failed, driver, discovery_discovered_urls, idx, discovered_urls,
                   args, new_urls, i, scraped_count, scrapeVars, ckpt>>

\* profile_db.is_scraped(url), url being one of the site's URLs
IsScraped ==
    /\ pc = "constructed"
    /\ \E url \in Hrefs :
          /\ linkedin_url' = url
          /\ outcome' = IF is_scraped(url, scraped_urls) THEN "known" ELSE "not_known"
    /\ UNCHANGED <<interrupted_at, periodic_exports, pc, raised, storeVars, driver, discVars,
                   args, new_urls, i, scraped_count, retries, attempts, ckpt, backoffs>>

SavesNext ==
    \/ Construct
    \/ AddProfile
    \/ IsScraped
    \/ SaveDatabaseLogged

SavesSpec == Init /\ [][SavesNext]_vars

\* ------------------------------------------------------------------------
\* A run nobody interrupts, every step of which is taken in the end
\* ------------------------------------------------------------------------

\* calls that ask for as many profiles as the site can give
LiveCalls == {a \in CallArgs : a.max_profiles \in {-1, MaxN}}

LiveCall == DiscoverAndScrapeWith(LiveCalls)

\* the steps of main when no KeyboardInterrupt arrives
LiveNext ==
    \/ Construct
    \/ LoginOk
    \/ LoginRaises
    \/ LiveCall
    \/ ConnectionsVisit
    \/ ConnectionsReturn
    \/ CompanyVisit
    \/ CompanyReturn
    \/ SearchVisit
    \/ SearchReturn
    \/ BuildFrontier
    \/ ScrapeProfileEnter
    \/ IssueFetch
    \/ FetchEnds
    \/ PeriodicExport
    \/ PeriodicSave
    \/ LoopEnds
    \/ FinalExport
    \/ FinalSave

\* the steps of LiveNext that read no URL
LiveSteps ==
    \/ Construct
    \/ LoginOk
    \/ LoginRaises
    \/ LiveCall
    \/ ConnectionsVisit
    \/ ConnectionsReturn
    \/ CompanyVisit
    \/ CompanyReturn
    \/ SearchVisit
    \/ SearchReturn
    \/ IssueFetch
    \/ PeriodicExport
    \/ PeriodicSave
    \/ LoopEnds
    \/ FinalExport
    \/ FinalSave

\* the steps of LiveNext that normalize a URL
UrlSteps == BuildFrontier \/ ScrapeProfileEnter \/ FetchEnds

\* ENABLED <<UrlSteps>>_vars, written out from the guards of the three
\* actions, each of which changes pc or i whenever its guard holds
UrlStepsEnabled ==
    \/ pc = "filter"
    \/ pc = "loop" /\ i < Len(Frontier)
    \/ pc = "fetching"

\* the interpreter runs the one thread of main on: every call it makes into
\* a collaborator returns or raises, and every sleep ends. The last
\* conjunct is WF_vars(UrlSteps) with its enabling condition written out,
\* which spares TLC the evaluation of _normalize_url inside ENABLED.
LiveSpec ==
    /\ InitOn({[state |-> "missing", content |-> EmptyDict]})
    /\ [][LiveNext]_vars
    /\ WF_vars(LiveSteps)
    /\ ([]<>(~UrlStepsEnabled) \/ []<><<UrlSteps>>_vars)

\* ------------------------------------------------------------------------
\* SimpleLinkedInScraper and WorkingLinkedInScraper (simple_scraper.py,
\* working_scraper.py): one instance, one call of scrape_multiple_profiles
\* ------------------------------------------------------------------------

\* The two classes keep no ProfileDatabase and make no discovery. Their
\* fields and the locals of scrape_multiple_profiles are held in cells of
\* the state that the actions of this section alone write; the cells that
\* have another name in enhanced_scraper.py are given their names here.

\* self.scraped_data (self.scraped_profiles in working_scraper.py)
scraped_data == profiles

\* the argument profile_urls, after profile_urls[:max_profiles]
profile_urls == new_urls

\* the local success_count
success_count == scraped_count

\* ghost: calls of save_to_excel made inside the for loop
intermediate_saves == periodic_exports

\* ghost: calls of Person(...) made so far
fetches == attempts

\* ghost: the URLs for which some fetch returned a record with a name
named == discovered_urls

\* the cells neither class uses
otherCells == <<raised, db_file, load_failed, driver, discovery_discovered_urls, args, idx,
                discovered, retries, ckpt, backoffs, interrupted_at>>

\* longest list handed to scrape_multiple_profiles
MaxUrls == 6

\* the literal of `i % 5 == 0` and of `success_count % 5 == 0`
SaveEvery == 5

\* the k-th profile URL
ProfileUrl(k) == ProfilePrefix \o <<ToString(k)>>

\* the lists of at most MaxUrls URLs whose k-th entry is the k-th URL or
\* the first URL once more
ProfileLists ==
    UNION {{[k \in 1..n |-> IF k \in again THEN ProfileUrl(1) ELSE ProfileUrl(k)] :
               again \in SUBSET (2..n)} : n \in 0..MaxUrls}

\* a fetch that marks its URL whatever it returned
RecordFetched_MarksEveryFetch(data, urls, url, res) ==
    IF res.kind = "person" /\ res.name # ""
    THEN [scraped_data |-> Append(data, [name |-> res.name, linkedin_url |-> url]),
          scraped_urls |-> urls \cup {url}]
    ELSE [scraped_data |-> data, scraped_urls |-> urls \cup {url}]

\* what the end of Person(...) leaves in scraped_data and scraped_urls:
\* `if person.name:` appends the record and adds the URL as it was given;
\* an empty name and an exception leave both as they were
RecordFetched(data, urls, url, res) ==
    IF res.kind = "person" /\ res.name # ""
    THEN [scraped_data |-> Append(data, [name |-> res.name, linkedin_url |-> url]),
          scraped_urls |-> urls \cup {url}]
    ELSE [scraped_data |-> data, scraped_urls |-> urls]

\* SimpleLinkedInScraper: if i % 5 == 0, i counting the URLs gone through
SimpleSaveDue(index) == index % SaveEvery = 0

\* WorkingLinkedInScraper: if success_count % 5 == 0, inside `if result:`
WorkingSaveDue(count) == count % SaveEvery = 0

\* __init__ of either class
NewScraper(class) ==
    /\ pc = "start"
    /\ scraped_data' = << >>
    /\ scraped_urls' = {}
    /\ pc' = class
    /\ UNCHANGED <<profile_urls, i, success_count, linkedin_url, fetches, outcome,
                   intermediate_saves, named, otherCells>>

SimpleInit == NewScraper("simple")

WorkingInit == NewScraper("working")

\* scrape_multiple_profiles is entered with the list `urls`
EnterLoop(class, urls) ==
    /\ pc = class
    /\ profile_urls' = urls
    /\ success_count' = 0
    /\ i' = 0
    /\ pc' = IF class = "simple" THEN "simple_for" ELSE "working_for"
    /\ UNCHANGED <<scraped_data, scraped_urls, linkedin_url, fetches, outcome,
                   intermediate_saves, named, otherCells>>

\* SimpleLinkedInScraper.scrape_multiple_profiles(profile_urls)
SimpleScrapeMultiple == \E urls \in ProfileLists : EnterLoop("simple", urls)

\* WorkingLinkedInScraper.scrape_multiple_profiles(profile_urls,
\* max_profiles): `if max_profiles:` is false for None and for 0
WorkingScrapeMultiple ==
    \E urls \in ProfileLists, max_profiles \in (-1)..MaxUrls :
        EnterLoop("working",
                  IF max_profiles # 0 THEN PySlicePrefix(urls, max_profiles) ELSE urls)

\* SimpleLinkedInScraper: the for loop takes its next URL and calls
\* scrape_single_profile, which returns None at once for a URL of
\* scraped_urls; the loop then makes its test for the intermediate save
SimpleNextUrl ==
    /\ pc = "simple_for"
    /\ i < Len(profile_urls)
    /\ i' = i + 1
    /\ linkedin_url' = profile_urls[i + 1]
    /\ IF profile_urls[i + 1] \in scraped_urls
       THEN /\ outcome' = "skipped"
            /\ fetches' = fetches
            /\ pc' = IF SimpleSaveDue(i + 1) THEN "simple_save" ELSE "simple_for"
       ELSE /\ outcome' = "none"
            /\ fetches' = fetches + 1
            /\ pc' = "simple_fetching"
    /\ UNCHANGED <<scraped_data, scraped_urls, profile_urls, success_count,
                   intermediate_saves, named, otherCells>>

\* SimpleLinkedInScraper: Person(...) returns or raises, scrape_single_profile
\* returns the record or None, the loop counts a record and makes its test
SimpleFetchEnds ==
    /\ pc = "simple_fetching"
    /\ \E res \in FetchResults :
          LET store == RecordFetched(scraped_data, scraped_urls, linkedin_url, res)
          IN  /\ scraped_data' = store.scraped_data
              /\ scraped_urls' = store.scraped_urls
              /\ outcome' = OutcomeOfFetch(res)
              /\ named' = IF OutcomeOfFetch(res) = "succeeded"
                          THEN named \cup {linkedin_url} ELSE named
              /\ success_count' = IF OutcomeOfFetch(res) = "succeeded"
                                  THEN success_count + 1 ELSE success_count
    /\ pc' = IF SimpleSaveDue(i) THEN "simple_save" ELSE "simple_for"
    /\ UNCHANGED <<profile_urls, i, linkedin_url, fetches, intermediate_saves, otherCells>>

\* self.save_to_excel() inside the loop of either class: it returns None
\* when there is nothing to save or when writing raises, the file name
\* otherwise
IntermediateSave(from, to) ==
    /\ pc = from
    /\ intermediate_saves' = intermediate_saves + 1
    /\ pc' = to
    /\ UNCHANGED <<scraped_data, scraped_urls, profile_urls, i, success_count, linkedin_url,
                   fetches, outcome, named, otherCells>>

SimpleSave == IntermediateSave("simple_save", "simple_for")

WorkingSave == IntermediateSave("working_save", "working_for")

\* the for loop of either class is over: return success_count
LoopReturns(from, to) ==
    /\ pc = from
    /\ i >= Len(profile_urls)
    /\ pc' = to
    /\ UNCHANGED <<scraped_data, scraped_urls, profile_urls, i, success_count, linkedin_url,
                   fetches, outcome, intermediate_saves, named, otherCells>>

SimpleReturn == LoopReturns("simple_for", "simple_done")

WorkingReturn == LoopReturns("working_for", "working_done")

\* WorkingLinkedInScraper: the for loop takes its next URL and calls
\* scrape_profile_basic, which returns None at once for a URL of
\* scraped_urls; without a result the loop makes no test
WorkingNextUrl ==
    /\ pc = "working_for"
    /\ i < Len(profile_urls)
    /\ i' = i + 1
    /\ linkedin_url' = profile_urls[i + 1]
    /\ IF profile_urls[i + 1] \in scraped_urls
       THEN /\ outcome' = "skipped"
            /\ fetches' = fetches
            /\ pc' = "working_for"
       ELSE /\ outcome' = "none"
            /\ fetches' = fetches + 1
            /\ pc' = "working_fetching"
    /\ UNCHANGED <<scraped_data, scraped_urls, profile_urls, success_count,
                   intermediate_saves, named, otherCells>>

\* WorkingLinkedInScraper: Person(...) or _manual_scrape_profile ends,
\* scrape_profile_basic returns the record or None; for a record the loop
\* counts it and makes its test on the count
WorkingFetchEnds ==
    /\ pc = "working_fetching"
    /\ \E res \in FetchResults :
          LET store == RecordFetched(scraped_data, scraped_urls, linkedin_url, res)
          IN  /\ scraped_data' = store.scraped_data
              /\ scraped_urls' = store.scraped_urls
              /\ outcome' = OutcomeOfFetch(res)
              /\ IF OutcomeOfFetch(res) = "succeeded"
                 THEN /\ named' = named \cup {linkedin_url}
                      /\ success_count' = success_count + 1
                      /\ pc' = IF WorkingSaveDue(success_count + 1)
                               THEN "working_save" ELSE "working_for"
                 ELSE /\ named' = named
                      /\ success_count' = success_count
                      /\ pc' = "working_for"
    /\ UNCHANGED <<profile_urls, i, linkedin_url, fetches, intermediate_saves, otherCells>>

ScrapersNext ==
    \/ SimpleInit
    \/ SimpleScrapeMultiple
    \/ SimpleNextUrl
    \/ SimpleFetchEnds
    \/ SimpleSave
    \/ SimpleReturn
    \/ WorkingInit
    \/ WorkingScrapeMultiple
    \/ WorkingNextUrl
    \/ WorkingFetchEnds
    \/ WorkingSave
    \/ WorkingReturn

ScrapersSpec == InitOn({[state |-> "missing", content |-> EmptyDict]}) /\ [][ScrapersNext]_vars

\* ------------------------------------------------------------------------
\* Properties
\* ------------------------------------------------------------------------

\* positions inside the call scrape_profile(Frontier[i + 1]) and the loop
\* body that follows it
InTarget == pc \in {"attempt", "fetching", "export", "save"}

\* targets the loop has called scrape_profile for
TargetsAttempted == IF InTarget THEN i + 1 ELSE i

\* no two entries of a list denote the same normalized identifier
DistinctIdentifiers(s) ==
    \A a, b \in 1..Len(s) : normalize_url(s[a]) = normalize_url(s[b]) => a = b

\* C1: while a fetch is in flight for a URL, the normalized identifier of
\* that URL is not in the identity store.
C1_NoFetchOfKnown ==
    pc = "fetching" => normalize_url(linkedin_url) \notin scraped_urls

\* C1 witness: the store started empty and has not been checkpointed, a
\* target succeeded in this run, and a later frontier entry that is another
\* raw spelling of it was skipped without a fetch.
C1_Witness ==
    /\ outcome = "skipped"
    /\ attempts = 0
    /\ db_file.state = "missing"
    /\ normalize_url(linkedin_url) \in scraped_urls
    /\ profiles[normalize_url(linkedin_url)].linkedin_url # linkedin_url

\* C2: right after the frontier is built, no URL of the built list has its
\* normalized identifier in the identity store.
C2_FrontierDisjointFromKnown ==
    (pc = "loop" /\ i = 0) =>
        \A k \in 1..Len(new_urls) : normalize_url(new_urls[k]) \notin scraped_urls

\* C2 witness: a frontier was built, something is in it, and a discovered
\* URL whose raw spelling is not a key of the store was left out as known.
C2_Witness ==
    /\ pc = "loop"
    /\ i = 0
    /\ new_urls # << >>
    /\ \E url \in discovered_urls :
          url \notin scraped_urls /\ normalize_url(url) \in scraped_urls

\* C3 (as claimed): the frontier never holds two entries with the same
\* normalized identifier.
C3_FrontierNoDuplicateIdentifiers ==
    pc \in {"loop", "attempt", "fetching"} => DistinctIdentifiers(Frontier)

\* C4 (as claimed): for every max_profiles, when a target is being fetched
\* the frontier has at most max_profiles entries and at most max_profiles
\* targets have been attempted.
C4_AtMostN ==
    pc = "fetching" =>
        Len(Frontier) <= args.max_profiles /\ TargetsAttempted <= args.max_profiles

\* C4 (amended): for every max_profiles >= 0, the frontier has at most
\* max_profiles entries and at most max_profiles targets are attempted.
C4_AtMostNonNegativeN ==
    args.max_profiles >= 0 =>
        Len(Frontier) <= args.max_profiles /\ TargetsAttempted <= args.max_profiles

\* C4 witness: with a positive max_profiles the frontier is full and its
\* last target is being fetched.
C4_Witness ==
    /\ pc = "fetching"
    /\ args.max_profiles > 0
    /\ Len(Frontier) = args.max_profiles
    /\ TargetsAttempted = args.max_profiles

\* C5: a target that was abandoned after its retry budget was used up is
\* neither in scraped_urls nor in profiles, and was not counted.
C5_HardFailedNotRecorded ==
    outcome = "failed" =>
        /\ normalize_url(linkedin_url) \notin scraped_urls
        /\ normalize_url(linkedin_url) \notin DOMAIN profiles
        /\ ~is_scraped(linkedin_url, scraped_urls)

\* C5 witness: a target was abandoned after max_retries fetches, in a run
\* that recorded another target.
C5_Witness ==
    /\ outcome = "failed"
    /\ attempts = max_retries
    /\ retries = max_retries
    /\ scraped_count > 0

\* C6 (as claimed): after scrape_profile returned a named record, which the
\* loop counts as a success, the identifier is in the identity store.
C6_SucceededIsRecorded ==
    outcome = "succeeded" => normalize_url(linkedin_url) \in scraped_urls

\* C7 (as claimed): after a load that failed on an existing store file, the
\* run issues no fetch and persists nothing.
C7_NoRunAfterFailedLoad ==
    load_failed => pc \notin {"fetching", "save", "final_save"}

\* C8 (as claimed): once a checkpoint whose export failed is over,
\* save_database has run at that checkpoint.
C8_SaveRunsAfterFailedExport ==
    (ckpt.export = "failed" /\ pc \notin {"export", "final_export"}) => ckpt.save # "none"

\* C9 (as claimed): a flush that failed at a checkpoint, periodic or final,
\* does not end discover_and_scrape with an exception.
C9_FlushFailureDoesNotPropagate ==
    (ckpt.export = "failed" \/ ckpt.save \in {"open_raises", "write_raises"})
        => raised = "none"

\* C10 (as claimed): a target whose fetch returned a record with an empty
\* name is dropped only when the attempt budget is used up, like a target
\* whose fetch raised.
C10_EmptyNameIsRetried ==
    outcome \in {"no_data", "failed"} => attempts = max_retries

\* C11: one scrape_profile call issues at most max_retries fetches, no
\* fetch is issued once the call has an outcome, and a call that succeeded
\* did so on its last fetch: every fetch before it had raised.
C11_AttemptBudget ==
    /\ attempts <= max_retries
    /\ pc \in {"attempt", "fetching"} => outcome = "none"
    /\ outcome = "succeeded" => attempts = retries + 1

\* C11 witness: a call succeeded on the last fetch its budget allows.
C11_Witness ==
    /\ outcome = "succeeded"
    /\ attempts = max_retries
    /\ retries = max_retries - 1

\* C12 (as claimed): when a call ends with a named record after f > 0
\* fetches that raised, the target is in the identity store and the call
\* slept f times to back off, once after each fetch that raised.
C12_SucceedsAfterTransientFailures ==
    (outcome = "succeeded" /\ retries > 0) =>
        /\ normalize_url(linkedin_url) \in scraped_urls
        /\ backoffs >= retries

\* C13: export_to_excel has been called periodically once for every
\* positive multiple of export_interval the success counter has reached,
\* a periodic checkpoint runs only while the counter is such a multiple,
\* and a call of discover_and_scrape that got through its scrape loop
\* ended with the final export called.
C13_CheckpointCadence ==
    /\ periodic_exports = scraped_count \div args.export_interval
    /\ pc \in {"export", "save"} =>
           scraped_count > 0 /\ scraped_count % args.export_interval = 0
    /\ (pc = "terminated" /\ raised \in {"none", "export_to_excel"}) =>
           ckpt.kind = "final" /\ ckpt.export # "none"

\* C13 witness: with export_interval 2, three targets succeeded, one
\* periodic export was called, and the run ended with the final export and
\* save.
C13_Witness ==
    /\ pc = "terminated"
    /\ args.export_interval = 2
    /\ scraped_count = 3
    /\ periodic_exports = 1
    /\ ckpt.kind = "final"
    /\ ckpt.save = "ok"

\* C15 (as claimed): a run that a KeyboardInterrupt hit, wherever it hit,
\* ends with the final checkpoint run: the final export was called and the
\* final save_database ran.
C15_InterruptThenFinalCheckpoint ==
    (interrupted_at # "none" /\ pc = "terminated") =>
        ckpt.kind = "final" /\ ckpt.export # "none" /\ ckpt.save # "none"

\* C16 (as claimed): a KeyboardInterrupt never hits the run while a fetch
\* is in flight; the fetch runs to its own outcome first.
C16_NoInterruptMidAttempt ==
    interrupted_at # "fetching"

Recorded == outcome = "recorded"

\* C17 (as claimed): normalizing the identifier of a recorded reference
\* gives the same identifier, whatever the reference.
C17_NormalizeIdempotent ==
    Recorded =>
        normalize_url(normalize_url(linkedin_url)) = normalize_url(linkedin_url)

\* references that differ from ref by a trailing slash or a query string
\* only: one of them added, or removed
SlashOrQueryVariants(ref) ==
    {ref \o <<"/">>, ref \o <<"?", "h">>, ref \o <<"/", "?", "h">>}
        \cup (IF ref # << >> /\ ref[Len(ref)] = "/" THEN {Take(ref, Len(ref) - 1)} ELSE {})
        \cup (IF Find(ref, "?") >= 0 /\ Find(ref, "#") < 0 THEN {SplitHead(ref, "?")} ELSE {})

LastNonSlash(s) ==
    LET ks == {k \in 1..Len(s) : s[k] # "/"}
    IN  IF ks = {} THEN 0 ELSE CHOOSE k \in ks : \A j \in ks : j <= k

\* scheme://netloc followed by path
Reassembled(parsed, path) == parsed.scheme \o <<":", "/", "/">> \o parsed.netloc \o path

\* C19 (as claimed): the identifier of a recorded reference is scheme://,
\* the host and the path less one trailing '/', when it has one; the query
\* is not in it.
C19_StripsExactlyOneSlash ==
    (Recorded /\ linkedin_url # << >>) =>
        LET parsed == urlparse(linkedin_url)
            path == parsed.path
            stripped == IF path # << >> /\ path[Len(path)] = "/"
                        THEN Take(path, Len(path) - 1) ELSE path
        IN  /\ normalize_url(linkedin_url) = Reassembled(parsed, stripped)
            /\ ~Contains(normalize_url(linkedin_url), <<"?">>)

\* C19 (amended): the path is there less all its trailing '/' characters.
C19_StripsEveryTrailingSlash ==
    (Recorded /\ linkedin_url # << >>) =>
        LET parsed == urlparse(linkedin_url)
        IN  /\ normalize_url(linkedin_url) =
                   Reassembled(parsed, Take(parsed.path, LastNonSlash(parsed.path)))
            /\ ~Contains(normalize_url(linkedin_url), <<"?">>)
            /\ scraped_urls = {normalize_url(linkedin_url)}

\* C19 witness: a recorded reference whose path ends in two '/' and which
\* has a query string; its identifier ends with the path's letter.
C19_Witness ==
    /\ Recorded
    /\ linkedin_url = <<"h", "/", "/", "?">>
    /\ scraped_urls = {<<":", "/", "/", "h">>}

\* C20: the count is the number of identifiers in the known set; a direct
\* add_profile call that recorded its reference adds the normalized
\* identifier to both, raises the count by one when the identifier is new
\* and leaves it when it is not, and changes no other record.
C20_CountOfDistinctIdentifiers ==
    /\ [](get_profile_count(profiles) = Cardinality(scraped_urls))
    /\ [][Recorded' =>
            LET id == normalize_url(linkedin_url')
            IN  /\ scraped_urls' = scraped_urls \cup {id}
                /\ DOMAIN profiles' = DOMAIN profiles \cup {id}
                /\ get_profile_count(profiles') =
                       get_profile_count(profiles) + (IF id \in scraped_urls THEN 0 ELSE 1)
                /\ \A k \in DOMAIN profiles \ {id} : profiles'[k] = profiles[k]]_vars

\* C20 witness: both identifiers of the site were loaded from the file, one
\* of them was recorded again under another raw spelling, which replaced
\* its record, and the count is still the number of identifiers loaded.
C20_Witness ==
    /\ Recorded
    /\ db_file.state = "ok"
    /\ normalize_url(linkedin_url) \in DOMAIN db_file.content
    /\ profiles[normalize_url(linkedin_url)] # db_file.content[normalize_url(linkedin_url)]
    /\ get_profile_count(profiles) = Cardinality(DOMAIN db_file.content)
    /\ get_profile_count(profiles) = 2

\* C21 (as claimed): in a database that has been constructed, whatever it
\* holds, is_scraped answers True for every reference whose identifier is
\* the empty string.
C21_EmptyIdentifierAlwaysKnown ==
    pc = "constructed" =>
        \A ref \in Refs : normalize_url(ref) = << >> => is_scraped(ref, scraped_urls)

\* what save_database leaves in ckpt.save when it failed
FailedSaves == {"open_raises", "write_raises"}

\* C22 (as claimed): a save_database that fails changes neither profiles
\* nor scraped_urls and raises nothing; after a periodic one the loop goes
\* on; and when a write of this run left the file unreadable, the run does
\* not end before its final checkpoint has called save_database again.
C22_FailedSaveIsRetried ==
    /\ [][(ckpt.save = "none" /\ ckpt'.save \in FailedSaves) =>
              /\ profiles' = profiles
              /\ scraped_urls' = scraped_urls
              /\ raised' = "none"
              /\ ckpt.kind = "periodic" => pc' = "loop"]_vars
    /\ []((pc = "terminated" /\ interrupted_at = "none" /\ ~load_failed
              /\ db_file.state = "corrupt") => ckpt.save # "none")

\* C23 (as claimed): when discover_from_company_employees or
\* discover_from_search starts, what it harvests from a page is what it
\* would harvest with an empty set of references seen so far, whatever an
\* earlier strategy of the run has seen.
C23_SeenSetIsStrategyLocal ==
    (pc \in {"company", "search"} /\ idx = 0) =>
        \A links \in PageLinks :
            extract_profile_links(links, discovery_discovered_urls).links
                = extract_profile_links(links, {}).links

\* the list a strategy that is about to return hands to discover_and_scrape
Returned == StrategyResult(discovered, StrategyCap(args.max_profiles))

\* C24 (as claimed): the list discover_from_company_employees or
\* discover_from_search returns never holds the same reference twice.
C24_NoDuplicateInStrategyResult ==
    pc \in {"company_return", "search_return"} =>
        \A a, b \in 1..Len(Returned) : Returned[a] = Returned[b] => a = b

\* the number of inputs of the strategy the run is in
InputsOf(position) ==
    CASE position \in {"connections", "connections_return"} -> args.seed_profiles
      [] position \in {"company", "company_return"} -> args.company_urls
      [] position \in {"search", "search_return"} -> args.search_terms

\* C25: a strategy returns before it has visited all its inputs only when
\* its list is full, never because a page raised; no exception of a page
\* ends the run, and every strategy the call asked for is entered.
C25_PageFailureIsSkipped ==
    /\ pc \in {"connections_return", "company_return", "search_return"} =>
           idx = InputsOf(pc) \/ Len(discovered) >= StrategyCap(args.max_profiles)
    /\ pc \in {"connections", "company", "search"} => idx < InputsOf(pc)
    /\ pc \in {"connections", "company", "search", "connections_return", "company_return",
                "search_return", "filter", "loop"} => raised = "none"

\* C25 witness: discover_from_connections is at its second seed with a list
\* that is already full, which only a first seed page that raised after its
\* links were harvested allows.
C25_Witness ==
    /\ pc = "connections"
    /\ idx = 1
    /\ StrategyCap(args.max_profiles) >= 1
    /\ Len(discovered) >= StrategyCap(args.max_profiles)

\* the targets the scrape loop would go through had random.shuffle left
\* the built list in the order `order`
KeptUnder(order) == Range(PySlicePrefix(order, args.max_profiles))

\* C26 (as claimed): once the list is built, the set of targets that the
\* slice new_urls[:max_profiles] keeps is the same for every order the
\* shuffle could have given the list.
C26_ShuffleDoesNotChooseTargets ==
    pc \in LoopPositions =>
        \A order \in Orderings(Range(new_urls)) : KeptUnder(order) = Range(Frontier)

\* C26 (amended): the same for max_profiles >= 0, where the slice drops
\* nothing: all targets of the built list are kept.
C26_NoTargetDroppedForNonNegativeN ==
    (pc \in LoopPositions /\ args.max_profiles >= 0) =>
        /\ \A order \in Orderings(Range(new_urls)) : KeptUnder(order) = Range(Frontier)
        /\ Range(Frontier) = Range(new_urls)

\* C26 witness: the built list holds as many targets as max_profiles
\* allows, more than one, and the slice keeps them all.
C26_Witness ==
    /\ pc = "loop"
    /\ i = 0
    /\ Len(new_urls) > 1
    /\ Len(new_urls) = args.max_profiles
    /\ Range(Frontier) = Range(new_urls)

\* C27: a run in which login raised, or discover_and_scrape was called
\* without a driver, is over: nothing was discovered, no target was
\* fetched, no checkpoint ran, and the store file is as it was loaded.
C27_NoSessionNoWrite ==
    raised \in {"login", "no_driver"} =>
        /\ pc = "terminated"
        /\ discovery_discovered_urls = {} /\ discovered_urls = {} /\ new_urls = << >>
        /\ attempts = 0 /\ scraped_count = 0
        /\ ckpt = NoCkpt
        /\ profiles = load_database(db_file)
        /\ load_failed = load_raised(db_file)

\* C27 witness: login raised in a run that had loaded a store of two
\* identifiers.
C27_Witness ==
    /\ raised = "login"
    /\ pc = "terminated"
    /\ get_profile_count(profiles) = 2

\* identifiers the store file gives back when it is loaded
Durable == DOMAIN load_database(db_file)

\* identifiers recorded in memory that a crash would lose
Unsaved == DOMAIN profiles \ Durable

\* C28 (as claimed): between two targets of the scrape loop, fewer than
\* export_interval recorded identifiers are missing from the store file.
C28_UnsavedBelowInterval ==
    pc = "loop" => Cardinality(Unsaved) < args.export_interval

NoSleepSinceTarget ==
    pc = "loop" /\ i > 0 /\ ckpt.kind = "periodic" /\ ckpt.export = "failed"

\* C30 (as claimed): the loop never comes to a target without having slept
\* since the earlier one ended, and is never through with it without a
\* sleep either: when it did not sleep after the earlier target, the next
\* one is not skipped as already known, which is the only way through
\* scrape_profile that does not sleep.
C30_SleepBetweenTargets ==
    [][NoSleepSinceTarget => ~(i' = i + 1 /\ outcome' = "skipped")]_vars

\* the bounds of random.uniform in the sleep scrape_profile makes before
\* its next attempt, after `n` fetches of the call have raised
retry_sleep(n) == [lo |-> 5, hi |-> 10]

\* range `later` is wider than range `earlier`, or reaches beyond it
Widens(earlier, later) ==
    \/ later.hi - later.lo > earlier.hi - earlier.lo
    \/ later.hi > earlier.hi

\* C31 (as claimed): once a call of scrape_profile has slept before a
\* second retry, the range that sleep was drawn from is wider than, or
\* reaches beyond, the range of the sleep before the first retry.
C31_BackoffWidens ==
    \A n \in 2..backoffs : Widens(retry_sleep(n - 1), retry_sleep(n))

\* the save_database call that was made last returned normally
LastSaveOk == save_log # << >> /\ save_log[Len(save_log)].result = "ok"

\* C32: when save_database writes the file after an earlier call of it
\* failed, the file holds every identifier the database knows, those it
\* knew at each earlier call, failed or not, included.
C32_NextPersistWritesEverything ==
    [][(/\ Len(save_log') > Len(save_log)
        /\ LastSaveOk'
        /\ \E k \in 1..Len(save_log) : save_log[k].result \in FailedSaves) =>
            /\ db_file'.state = "ok"
            /\ load_database(db_file') = profiles
            /\ scraped_urls \subseteq DOMAIN load_database(db_file')
            /\ \A k \in 1..Len(save_log) :
                  save_log[k].known \subseteq DOMAIN load_database(db_file')]_vars

\* C32 witness: a persist that truncated the file when one identifier was
\* known, then a persist that succeeded when a second one was known too;
\* the file holds both.
C32_Witness ==
    /\ Len(save_log) = 2
    /\ save_log[1].result = "write_raises"
    /\ Cardinality(save_log[1].known) = 1
    /\ LastSaveOk
    /\ Cardinality(save_log[2].known) = 2
    /\ save_log[1].known \subseteq save_log[2].known
    /\ DOMAIN load_database(db_file) = save_log[2].known

\* C34 (as claimed): a save_database call that fails leaves the file so
\* that loading it yields what loading it yielded before the call.
C34_FailedPersistKeepsSnapshot ==
    [][(/\ Len(save_log') > Len(save_log)
        /\ save_log'[Len(save_log')].result \in FailedSaves) =>
            load_database(db_file') = load_database(db_file)]_vars

\* discover_and_scrape has been entered and has not come to its final export
InCall == pc \in DiscoveryPositions \cup LoopPositions
                 \cup {"connections_return", "company_return", "search_return"}

\* how a call of scrape_profile that fetched can end
TerminalOutcomes == {"succeeded", "failed", "no_data"}

\* C35: in a run nobody interrupts, a call of scrape_profile that goes to
\* fetch its target ends with a terminal outcome, discover_and_scrape
\* comes to its final export, and by then the loop has been through every
\* target of the frontier.
C35_EveryTargetEndsAndRunCheckpoints ==
    /\ (pc \in {"attempt", "fetching"}) ~> (outcome \in TerminalOutcomes)
    /\ InCall ~> (pc = "final_export")
    /\ [](pc = "final_export" => i = Len(Frontier))

\* C35 witness: the final export is reached after a frontier of two
\* targets, one of which succeeded and one of which did not.
C35_Witness ==
    /\ pc = "final_export"
    /\ Len(Frontier) = 2
    /\ i = 2
    /\ scraped_count = 1
    /\ get_profile_count(profiles) = 1

\* discover_and_scrape has the union of the strategy outputs
AfterDiscovery == pc \in {"filter"} \cup LoopPositions

\* what the caps of the strategies give for a call with max_profiles `n`:
\* a strategy that returns references returns at most n // 3 of them, a
\* union that holds references holds at most n, the slice new_urls[:n]
\* drops nothing, and for n = 1 and n = 2 no strategy returns anything, so
\* that no target is fetched
CapsHold(n) ==
    /\ pc \in {"connections_return", "company_return", "search_return"} =>
           /\ Returned # << >> => Len(Returned) <= StrategyCap(n)
           /\ n \in {1, 2} => Returned = << >>
    /\ AfterDiscovery =>
           /\ discovered_urls # {} => Cardinality(discovered_urls) <= n
           /\ Range(Frontier) = Range(new_urls)
           /\ n \in {1, 2} => Frontier = << >> /\ pc \notin {"attempt", "fetching"}

\* C36 (as claimed): the caps give this for every call of
\* discover_and_scrape.
C36_CapsKeepUnionWithinN == CapsHold(args.max_profiles)

\* C36 (amended): the caps give this for every call with max_profiles >= 0.
C36_CapsKeepUnionWithinNonNegativeN ==
    args.max_profiles >= 0 => CapsHold(args.max_profiles)

\* C36 witness: a call with max_profiles 2 saw profile links on the pages
\* it visited, no strategy returned any of them, and the scrape loop ended
\* without a target.
C36_Witness ==
    /\ pc = "final_export"
    /\ args.max_profiles = 2
    /\ discovery_discovered_urls # {}
    /\ discovered_urls = {}
    /\ Frontier = << >>
    /\ scraped_count = 0

\* C38: in a ProfileDatabase that has been constructed, whatever calls of
\* add_profile, is_scraped and save_database were made on it since, those
\* add_profile calls that failed internally included, scraped_urls is the
\* key set of profiles.
C38_KnownSetIsKeySet == pc = "constructed" => scraped_urls = DOMAIN profiles

\* C38 witness: the database was saved when it knew one identifier, knows
\* two now, and the add_profile call made last failed internally.
C38_Witness ==
    /\ pc = "constructed"
    /\ outcome = "add_raised"
    /\ save_log # << >>
    /\ Cardinality(save_log[1].known) = 1
    /\ Cardinality(scraped_urls) = 2
    /\ DOMAIN profiles = scraped_urls

\* C33 (as claimed): in scrape_multiple_profiles of either class,
\* save_to_excel is called inside the loop only right after a success that
\* brought success_count to a multiple of 5, and it has been called once
\* for every multiple of 5 that success_count has reached.
C33_SaveEveryFifthSuccess ==
    /\ pc \in {"simple_save", "working_save"} =>
           /\ outcome = "succeeded"
           /\ success_count > 0
           /\ success_count % SaveEvery = 0
    /\ pc \in {"simple_for", "working_for", "simple_done", "working_done"} =>
           intermediate_saves = success_count \div SaveEvery

====
